---------------------------- MODULE Spec2Model ----------------------------
(***************************************************************************)
(* A model of proxy.py: the LRU response cache (LRUCache), the line        *)
(* framer (recv_line), and the per-client session loop (handle_client)     *)
(* run by one thread per accepted connection (main).                       *)
(*                                                                         *)
(* Four specifications share the variables below:                          *)
(*   SpecLRU    - one caller driving LRUCache.get / LRUCache.set           *)
(*   SpecFramer - recv_line reading a byte stream in arbitrary chunks      *)
(*   Spec       - two concurrent sessions sharing one cache                *)
(*   SpecKey    - the cache keys of two requests handled one after another *)
(***************************************************************************)
EXTENDS Integers, Sequences, FiniteSets, TLC

VARIABLES
    \* LRUCache
    d,            \* LRUCache._d : the ordered dictionary, oldest entry first
    capacity,     \* LRUCache.capacity
    \* observation of the single caller of SpecLRU
    clock,        \* number of get/set calls made so far
    lastUse,      \* key -> clock value of its most recent access (set, or get that hit)
    lastOp,       \* the last call: its name, key and result
    \* recv_line, SpecFramer
    msgs,         \* the newline-terminated messages the peer writes
    ftail,        \* bytes the peer writes after them without a newline
    stream,       \* bytes written by the peer and not yet returned by sock.recv
    fbuf,         \* the bytearray passed to recv_line
    flines,       \* the lines returned by the successive calls of recv_line
    fpc,          \* "run", or "closed" once recv_line returned None
    ferr,         \* whether a sock.recv raised
    \* handle_client
    sess,         \* session -> the state of its thread and of its two connections
    unreliable,   \* whether backend connections may break or stall in this run
    \* cache keys, SpecKey
    kreq,         \* the two requests, as parsed
    kkey,         \* their cache keys, once built
    kpc           \* "first", "second", "done"

lruVars == <<d, capacity, clock, lastUse, lastOp>>
framerVars == <<msgs, ftail, stream, fbuf, flines, fpc, ferr>>
sessVars == <<sess, unreliable>>
keyVars == <<kreq, kkey, kpc>>
vars == <<d, capacity, clock, lastUse, lastOp,
          msgs, ftail, stream, fbuf, flines, fpc, ferr, sess, unreliable,
          kreq, kkey, kpc>>

----------------------------------------------------------------------------
(* Bounds *)

MaxCapacity == 3     \* SpecLRU: capacities 0..MaxCapacity
MaxOps == 5          \* SpecLRU: number of get/set calls
MaxMsgs == 2         \* SpecFramer: messages in the stream
MaxMsgLen == 2       \* SpecFramer: bytes in a message
CacheSize == 1       \* Spec: --cache-size is 0..CacheSize
MaxLines == 3        \* Spec: lines the clients send, all connections together
MaxLinesB == 1       \* Spec: lines the client of session B sends

RecvSize == 4096     \* sock.recv(4096)

Min(a, b) == IF a < b THEN a ELSE b

----------------------------------------------------------------------------
(* JSON values.  A value is a record: t its type, s the text of a scalar, *)
(* kv the members of an object, pairs of a name and a value, in their      *)
(* textual order (Python dicts keep insertion order).  Python's None is    *)
(* the JSON value null.                                                    *)

JObj(members) == [t |-> "obj", s |-> "", kv |-> members]
JStr(text) == [t |-> "str", s |-> text, kv |-> <<>>]
JBool(text) == [t |-> "bool", s |-> text, kv |-> <<>>]
JNum == [t |-> "num", s |-> "5", kv |-> <<>>]
None == [t |-> "null", s |-> "null", kv |-> <<>>]

\* alphabetical rank of the member names used, for sort_keys=True
NameRank(name) ==
    CASE name = "cache" -> 0
      [] name = "data" -> 1
      [] name = "error" -> 2
      [] name = "mode" -> 3
      [] name = "ok" -> 4
      [] name = "options" -> 5
      [] name = "result" -> 6
      [] name = "ttl" -> 7

RECURSIVE InsertSorted(_, _)
InsertSorted(pair, sorted) ==
    IF sorted = <<>> THEN <<pair>>
    ELSE IF NameRank(pair[1]) <= NameRank(Head(sorted)[1])
         THEN <<pair>> \o sorted
         ELSE <<Head(sorted)>> \o InsertSorted(pair, Tail(sorted))

SortMembersNone(members) == members

\* sort_keys=True: the members of an object ordered by name
RECURSIVE SortMembers(_)
SortMembers(members) ==
    IF members = <<>> THEN <<>>
    ELSE InsertSorted(Head(members), SortMembers(Tail(members)))

\* json.dumps(v, sort_keys=sort): the text of the value, as its tokens; with
\* sort the members of every object of it come in the order of their names
RECURSIVE DumpsText(_, _), DumpMembers(_, _)
DumpsText(v, sort) ==
    CASE v.t = "obj" ->
            <<"{">> \o DumpMembers(IF sort THEN SortMembers(v.kv) ELSE v.kv, sort)
                   \o <<"}">>
      [] v.t = "str" -> <<"\"", v.s, "\"">>
      [] OTHER -> <<v.s>>

DumpMembers(members, sort) ==
    IF members = <<>> THEN <<>>
    ELSE <<"\"", Head(members)[1], "\"", ":">> \o DumpsText(Head(members)[2], sort)
         \o (IF Tail(members) = <<>> THEN <<>> ELSE <<",">>)
         \o DumpMembers(Tail(members), sort)

\* json.dumps(req, sort_keys=True), the cache key of line 113
DumpsSorted(v) == DumpsText(v, TRUE)

\* json.dumps(v), the text of a value with its members as they are
Dumps(v) == DumpsText(v, FALSE)

----------------------------------------------------------------------------
(* collections.OrderedDict, as a sequence of entries, oldest first.        *)
(* An entry: k the key, v the value, parsed whether v was obtained by      *)
(* parsing a backend line (an observation, not read by the program).       *)

Entry(key, value, parsed) == [k |-> key, v |-> value, parsed |-> parsed]

KeysOf(dd) == {dd[i].k : i \in DOMAIN dd}

Contains(dd, key) == \E i \in DOMAIN dd : dd[i].k = key

IndexOf(dd, key) == CHOOSE i \in DOMAIN dd : dd[i].k = key

GetItem(dd, key) == dd[IndexOf(dd, key)].v

\* self._d[key] = value : an existing key keeps its position
SetItem(dd, key, value, parsed) ==
    IF Contains(dd, key)
    THEN [dd EXCEPT ![IndexOf(dd, key)] = Entry(key, value, parsed)]
    ELSE Append(dd, Entry(key, value, parsed))

MoveToEndFirst(dd, key) ==
    LET i == IndexOf(dd, key)
    IN  <<dd[i]>> \o [j \in 1..(Len(dd) - 1) |-> IF j < i THEN dd[j] ELSE dd[j + 1]]

\* self._d.move_to_end(key), for a key that is present
MoveToEnd(dd, key) ==
    LET i == IndexOf(dd, key)
    IN  [j \in 1..(Len(dd) - 1) |-> IF j < i THEN dd[j] ELSE dd[j + 1]] \o <<dd[i]>>

PopItemLast(dd) == SubSeq(dd, 1, Len(dd) - 1)

\* self._d.popitem(last=False), for a non-empty dictionary
PopItem(dd) == Tail(dd)

\* LRUCache.get run without interruption: the dictionary after, and the result
LRUGet(dd, key) ==
    IF ~Contains(dd, key)
    THEN [dict |-> dd, result |-> None]
    ELSE [dict |-> MoveToEnd(dd, key), result |-> GetItem(MoveToEnd(dd, key), key)]

LRUSetUnbounded(dd, key, value, parsed, cap) ==
    MoveToEnd(SetItem(dd, key, value, parsed), key)

\* LRUCache.set run without interruption
LRUSet(dd, key, value, parsed, cap) ==
    LET assigned == MoveToEnd(SetItem(dd, key, value, parsed), key)
    IN  IF Len(assigned) > cap THEN PopItem(assigned) ELSE assigned

----------------------------------------------------------------------------
(* recv_line *)

NL == "\n"

HasNewline(buf) == \E i \in DOMAIN buf : buf[i] = NL

FirstNewline(buf) == CHOOSE i \in DOMAIN buf : buf[i] = NL /\ \A j \in 1..(i - 1) : buf[j] # NL

LastNewline(buf) == CHOOSE i \in DOMAIN buf : buf[i] = NL /\ \A j \in (i + 1)..Len(buf) : buf[j] # NL

PartitionLast(buf) ==
    [line |-> SubSeq(buf, 1, LastNewline(buf) - 1),
     rest |-> SubSeq(buf, LastNewline(buf) + 1, Len(buf))]

\* bytes(buf).partition(b"\n") for a buffer holding a newline
Partition(buf) ==
    [line |-> SubSeq(buf, 1, FirstNewline(buf) - 1),
     rest |-> SubSeq(buf, FirstNewline(buf) + 1, Len(buf))]

SalvageDiscard(buf) == [ret |-> "None", line |-> <<>>, buf |-> <<>>]

\* lines 53-56: the buffered bytes are returned as one final line
Salvage(buf) == [ret |-> "line", line |-> buf, buf |-> <<>>]

\* One iteration of recv_line's loop, chunk being what sock.recv returned
\* (b"" when the peer closed or when sock.recv raised): ret is "line" when the
\* call returns a line, "None" when it returns None, "loop" when it goes on.
RecvLineIter(buf, chunk) ==
    IF HasNewline(buf)
    THEN [ret |-> "line", line |-> Partition(buf).line, buf |-> Partition(buf).rest]
    ELSE IF chunk = <<>>
         THEN IF Len(buf) = 0
              THEN [ret |-> "None", line |-> <<>>, buf |-> buf]
              ELSE Salvage(buf)
         ELSE [ret |-> "loop", line |-> <<>>, buf |-> buf \o chunk]

----------------------------------------------------------------------------
(* Sample requests and cache keys *)

Request(mode, data, options) ==
    JObj(<< <<"mode", JStr(mode)>>, <<"data", JStr(data)>>, <<"options", options>> >>)

\* options: {"cache": ..., "ttl": "1"}
Options(cache) == JObj(<< <<"cache", JBool(cache)>>, <<"ttl", JStr("1")>> >>)
CacheOn == Options("true")

ReqA == Request("calc", "e1", CacheOn)
\* the content of ReqA with its members written in another order
ReqA2 ==
    JObj(<< <<"options", JObj(<< <<"ttl", JStr("1")>>, <<"cache", JBool("true")>> >>)>>,
            <<"data", JStr("e1")>>, <<"mode", JStr("calc")>> >>)
ReqB == Request("calc", "e2", CacheOn)
ReqC == Request("gpt", "e1", CacheOn)
\* a request whose mode is not one of the known modes
ReqBad == Request("draw", "e1", CacheOn)
\* a request line that is valid JSON but not an object
ReqNum == JNum

\* a backend response: {"ok": true, "result": ...}
Result(data) == JObj(<< <<"ok", JBool("true")>>, <<"result", data>> >>)

----------------------------------------------------------------------------
(* SpecLRU: one caller of LRUCache *)

LruKeys == {DumpsSorted(r) : r \in {ReqA, ReqB, ReqC, ReqNum}}
LruValues == {Result(JStr("e1")), None}

\* the last call: was says whether its key was in the cache before it
NoOp == [op |-> "none", key |-> None, result |-> None, was |-> FALSE]
NeverUsed == [at |-> 0, by |-> "none"]

InitSessionsIdle == sess = <<>> /\ unreliable = FALSE

InitKeyIdle == kreq = <<>> /\ kkey = <<>> /\ kpc = "done"

InitFramerIdle ==
    /\ msgs = <<>> /\ ftail = <<>> /\ stream = <<>> /\ fbuf = <<>>
    /\ flines = <<>> /\ fpc = "closed" /\ ferr = FALSE

InitLruIdle ==
    /\ clock = 0
    /\ lastUse = [k \in LruKeys |-> NeverUsed]
    /\ lastOp = NoOp

\* LRUCache.__init__
InitLRU ==
    /\ d = <<>>
    /\ capacity \in 0..MaxCapacity
    /\ InitLruIdle
    /\ InitFramerIdle
    /\ InitSessionsIdle
    /\ InitKeyIdle

\* cache.get(key)
CallGet(key) ==
    /\ clock < MaxOps
    /\ LET r == LRUGet(d, key)
       IN  /\ d' = r.dict
           /\ lastOp' = [op |-> "get", key |-> key, result |-> r.result,
                         was |-> Contains(d, key)]
           /\ lastUse' = IF Contains(d, key)
                         THEN [lastUse EXCEPT ![key] = [at |-> clock + 1, by |-> "get"]]
                         ELSE lastUse
    /\ clock' = clock + 1
    /\ UNCHANGED <<capacity, framerVars, sessVars, keyVars>>

\* cache.set(key, value)
CallSet(key, value) ==
    /\ clock < MaxOps
    /\ d' = LRUSet(d, key, value, TRUE, capacity)
    /\ lastOp' = [op |-> "set", key |-> key, result |-> value,
                  was |-> Contains(d, key)]
    /\ lastUse' = [lastUse EXCEPT ![key] = [at |-> clock + 1, by |-> "set"]]
    /\ clock' = clock + 1
    /\ UNCHANGED <<capacity, framerVars, sessVars, keyVars>>

NextLRU ==
    \/ \E key \in LruKeys : CallGet(key)
    \/ \E key \in LruKeys, value \in LruValues : CallSet(key, value)

SpecLRU == InitLRU /\ [][NextLRU]_vars

\* the cached key whose most recent access is the oldest
LeastRecentlyUsed(dd, use) ==
    CHOOSE k \in KeysOf(dd) : \A o \in KeysOf(dd) : use[k].at <= use[o].at

\* a step that sets an absent key into a full cache of capacity >= 1
SetsNewKeyWhenFull ==
    /\ clock' = clock + 1
    /\ lastOp'.op = "set"
    /\ ~Contains(d, lastOp'.key)
    /\ capacity >= 1
    /\ Len(d) = capacity

EvictsExactlyTheLRU ==
    SetsNewKeyWhenFull =>
        /\ Len(d') = capacity
        /\ KeysOf(d') = (KeysOf(d) \ {LeastRecentlyUsed(d, lastUse)}) \cup {lastOp'.key}

\* g was last accessed by a get, after every other key's last access
LastAccessedByGet(g) ==
    /\ g \in KeysOf(d)
    /\ lastUse[g].by = "get"
    /\ \A o \in LruKeys \ {g} : lastUse[o].at < lastUse[g].at

\* C3 as stated: for every capacity N >= 1, a set of an absent key into a
\* full cache evicts exactly the entry whose last access is the oldest, and a
\* key last accessed by get after all other keys' last accesses survives it.
C3Original ==
    [][/\ EvictsExactlyTheLRU
       /\ SetsNewKeyWhenFull =>
              \A g \in LruKeys : LastAccessedByGet(g) => g \in KeysOf(d')]_vars

\* C3 amended: for every capacity N >= 1, a set of an absent key into a full
\* cache evicts exactly one entry, the one whose most recent access (set, or
\* get that hit) is the oldest; when N >= 2, a key last accessed by get after
\* all other keys' last accesses is not the one evicted.
C3Amended ==
    [][/\ EvictsExactlyTheLRU
       /\ (SetsNewKeyWhenFull /\ capacity >= 2) =>
              \A g \in LruKeys : LastAccessedByGet(g) => g \in KeysOf(d')]_vars

\* a full cache of capacity 3 whose oldest-inserted key was promoted by a get
\* and survived the set of a fourth key
C3Witness ==
    /\ capacity = 3
    /\ Len(d) = 3
    /\ lastOp.op = "set"
    /\ lastUse[lastOp.key].at = clock
    /\ \E g \in KeysOf(d) : lastUse[g].by = "get" /\ lastUse[g].at = clock - 1
    /\ \E k \in LruKeys : k \notin KeysOf(d) /\ lastUse[k].at > 0

\* the step is a completed cache.set
SetCompletes == clock' = clock + 1 /\ lastOp'.op = "set"

\* C17: for every capacity N >= 0, after every completed set the cache holds
\* at most N entries; a set of a key that is present overwrites its value,
\* makes it the most recently used, keeps the number of entries and evicts
\* nothing; no set evicts more than one entry.
C17Bounded ==
    [][SetCompletes =>
          /\ Len(d') <= capacity
          /\ Cardinality(KeysOf(d')) = Len(d')
          /\ Cardinality(KeysOf(d) \ KeysOf(d')) <= 1
          /\ Contains(d, lastOp'.key) =>
                /\ KeysOf(d') = KeysOf(d)
                /\ Len(d') = Len(d)
                /\ d'[Len(d')].k = lastOp'.key
                /\ d'[Len(d')].v = lastOp'.result]_vars

\* a full cache after a set that overwrote the value of a key that was
\* present and not the most recently used, another key having been evicted
\* before
C17Witness ==
    /\ lastOp.op = "set" /\ lastOp.was
    /\ capacity = 2 /\ Len(d) = 2
    /\ d[2].k = lastOp.key /\ d[2].v = None
    /\ lastUse[d[1].k].at > 1
    /\ \E k \in LruKeys : k \notin KeysOf(d) /\ lastUse[k].at > 0

----------------------------------------------------------------------------
(* SpecFramer: recv_line on one connection *)

FrBytes == {"a", "b"}

SeqsUpTo(S, n) == UNION {[1..k -> S] : k \in 0..n}

RECURSIVE Join(_)
Join(ms) == IF ms = <<>> THEN <<>> ELSE Head(ms) \o <<NL>> \o Join(Tail(ms))

IsPrefix(p, q) == Len(p) <= Len(q) /\ SubSeq(q, 1, Len(p)) = p

InitFramer ==
    /\ msgs \in SeqsUpTo(SeqsUpTo(FrBytes, MaxMsgLen), MaxMsgs)
    /\ ftail \in SeqsUpTo(FrBytes, 1)
    /\ stream = Join(msgs) \o ftail
    /\ fbuf = <<>>
    /\ flines = <<>>
    /\ fpc = "run"
    /\ ferr = FALSE
    /\ d = <<>> /\ capacity = 0
    /\ InitLruIdle
    /\ InitSessionsIdle
    /\ InitKeyIdle

\* the effect of one loop iteration on the caller's state
FrApply(r) ==
    /\ fbuf' = r.buf
    /\ flines' = IF r.ret = "line" THEN Append(flines, r.line) ELSE flines
    /\ fpc' = IF r.ret = "None" THEN "closed" ELSE "run"

\* the buffer holds a newline: the call returns the first line
FrReturnLine ==
    /\ fpc = "run"
    /\ HasNewline(fbuf)
    /\ FrApply(RecvLineIter(fbuf, <<>>))
    /\ UNCHANGED <<msgs, ftail, stream, ferr, lruVars, sessVars, keyVars>>

\* sock.recv(4096) returns the next n bytes
FrRecvChunk ==
    /\ fpc = "run"
    /\ ~HasNewline(fbuf)
    /\ \E n \in 1..Min(Len(stream), RecvSize) :
          /\ FrApply(RecvLineIter(fbuf, SubSeq(stream, 1, n)))
          /\ stream' = SubSeq(stream, n + 1, Len(stream))
    /\ UNCHANGED <<msgs, ftail, ferr, lruVars, sessVars, keyVars>>

\* the peer closed after its last byte was read: sock.recv returns b""
FrRecvClosed ==
    /\ fpc = "run"
    /\ ~HasNewline(fbuf)
    /\ stream = <<>>
    /\ FrApply(RecvLineIter(fbuf, <<>>))
    /\ UNCHANGED <<msgs, ftail, stream, ferr, lruVars, sessVars, keyVars>>

\* sock.recv raises: the except clause makes the chunk b""
FrRecvError ==
    /\ fpc = "run"
    /\ ~HasNewline(fbuf)
    /\ stream # <<>>
    /\ FrApply(RecvLineIter(fbuf, <<>>))
    /\ ferr' = TRUE
    /\ UNCHANGED <<msgs, ftail, stream, lruVars, sessVars, keyVars>>

NextFramer ==
    \/ FrReturnLine
    \/ FrRecvChunk
    \/ FrRecvClosed
    \/ FrRecvError

SpecFramer == InitFramer /\ [][NextFramer]_vars

\* the lines successive calls return when the whole stream came in one read
RECURSIVE SingleRead(_)
SingleRead(buf) ==
    LET r == RecvLineIter(buf, <<>>)
    IN  IF r.ret = "line" THEN <<r.line>> \o SingleRead(r.buf) ELSE <<>>

\* C5: when the peer writes newline-terminated messages only and no read
\* fails, the lines returned so far under any chunking are a prefix of the
\* lines a single read of the whole stream yields, which are the messages
\* without their newlines; once recv_line reports the close, all were returned.
C5Framing ==
    (~ferr /\ ftail = <<>>) =>
        /\ SingleRead(Join(msgs)) = msgs
        /\ IsPrefix(flines, SingleRead(Join(msgs)))
        /\ (fpc = "closed" => flines = SingleRead(Join(msgs)))

\* the first of two messages was returned and a read ended inside the
\* second one: the buffer holds a part of it, the rest is still to be read
C5Witness ==
    /\ ~ferr /\ ftail = <<>>
    /\ Len(msgs) = 2 /\ Len(msgs[1]) = 2 /\ Len(msgs[2]) = 2 /\ msgs[1] # msgs[2]
    /\ flines = <<msgs[1]>>
    /\ Len(fbuf) = 1 /\ Len(stream) = 2

\* the peer closed and every byte it wrote was read; the buffer holds no
\* complete line
FrAtEnd == fpc = "run" /\ ~HasNewline(fbuf) /\ stream = <<>>

\* the messages the peer wrote, the unterminated last one included
FrWritten == msgs \o (IF ftail = <<>> THEN <<>> ELSE <<ftail>>)

\* C15: at the end of the stream recv_line returns None when the buffer is
\* empty; when the buffer holds bytes without a newline it returns them all
\* as one last line and empties the buffer, so that the next call returns
\* None; and when None is returned after the peer closed, every line the
\* peer wrote was returned before.
C15EndOfStream ==
    [][/\ (FrAtEnd /\ fbuf = <<>>)
          => (fpc' = "closed" /\ flines' = flines /\ fbuf' = <<>>)
       /\ (FrAtEnd /\ fbuf # <<>>)
          => /\ flines' = Append(flines, fbuf)
             /\ fbuf' = <<>>
             /\ FrAtEnd'
       /\ (fpc' = "closed" /\ ~ferr') => flines' = FrWritten]_vars

\* a message and an unterminated tail were written; recv_line returned the
\* message, then the tail, then None
C15Witness ==
    /\ fpc = "closed" /\ ~ferr
    /\ ftail # <<>> /\ Len(msgs) >= 1 /\ msgs[1] # <<>>
    /\ flines = FrWritten

----------------------------------------------------------------------------
(* Spec: the sessions of handle_client, one thread each, sharing the cache *)

Sessions == {"A", "B"}

\* Lines a client writes, as their tokens
BlankLine == <<>>
WhitespaceLine == <<" ", "\t">>
GarbageLine == <<"{", "x">>
JsonLine(v) == Dumps(v)
ClientRequests == {ReqA, ReqA2, ReqNum, ReqBad}
ClientLines ==
    {BlankLine, WhitespaceLine, GarbageLine} \cup {JsonLine(r) : r \in ClientRequests}

Whitespace == {" ", "\t", "\r"}

IsEmpty(line) == Len(line) = 0

\* line.strip()
RECURSIVE Strip(_)
Strip(line) ==
    IF line = <<>> THEN <<>>
    ELSE IF Head(line) \in Whitespace THEN Strip(Tail(line))
    ELSE IF line[Len(line)] \in Whitespace THEN Strip(SubSeq(line, 1, Len(line) - 1))
    ELSE line

\* len(line.strip()) == 0
IsBlank(line) == Len(Strip(line)) = 0

\* json.loads(line.decode("utf-8")) of a client line
LoadsRequest(line) ==
    IF \E r \in ClientRequests : Dumps(r) = line
    THEN [ok |-> TRUE, val |-> CHOOSE r \in ClientRequests : Dumps(r) = line]
    ELSE [ok |-> FALSE, val |-> None]

\* what a line is, for the record of the lines a session read
Kind(line) ==
    IF \A i \in DOMAIN line : line[i] \in Whitespace THEN "blank"
    ELSE IF ~LoadsRequest(line).ok THEN "garbage"
    ELSE IF LoadsRequest(line).val.t = "obj" THEN "object"
    ELSE "json"

\* the responses the proxy makes up
ProxyError(text) == JObj(<< <<"ok", JBool("false")>>, <<"error", JStr(text)>> >>)
InvalidRequestErr == ProxyError("Proxy: invalid JSON request")
UnavailableErr == ProxyError("Proxy: backend unavailable")
ForwardErr == ProxyError("Proxy: error forwarding to backend")
BackendClosedErr == ProxyError("Proxy: backend closed connection unexpectedly")
InvalidBackendErr == ProxyError("Proxy: invalid JSON from backend")
ProxyErrors == {InvalidRequestErr, UnavailableErr, ForwardErr, BackendClosedErr, InvalidBackendErr}

\* The backend's lines.  The text of a value is two byte groups, so that a
\* read can end inside it.
BackendError == JObj(<< <<"ok", JBool("false")>>, <<"error", JStr("bad request")>> >>)
BackendValues == {Result(JStr("e1")), Result(JStr("e2")), BackendError, None}

Text(v) ==
    CASE v = Result(JStr("e1")) -> <<"{r1", "}">>
      [] v = Result(JStr("e2")) -> <<"{r2", "}">>
      [] v = BackendError -> <<"{er", "}">>
      [] v = None -> <<"nu", "ll">>

\* json.loads(resp_line.decode("utf-8")) of a backend line
LoadsResponse(line) ==
    IF \E v \in BackendValues : Text(v) = line
    THEN [ok |-> TRUE, val |-> CHOOSE v \in BackendValues : Text(v) = line]
    ELSE [ok |-> FALSE, val |-> None]

Member(v, name) == (CHOOSE i \in DOMAIN v.kv : v.kv[i][1] = name)

\* the modes the backend knows
KnownModes == {"calc", "gpt"}

HasKnownMode(r) == r.t = "obj" /\ r.kv[Member(r, "mode")][2].s \in KnownModes

\* what a healthy backend answers to a request
BackendAnswer(r) ==
    IF HasKnownMode(r) THEN Result(r.kv[Member(r, "data")][2]) ELSE BackendError

\* what the backend may do after it got a request: write its answer, null or
\* a line that is not JSON; when connections may break, also close the
\* connection after its answer, in the middle of it, or instead of it
BackendReplies(r, mayClose) ==
    {[bytes |-> Text(BackendAnswer(r)) \o <<NL>>, closes |-> FALSE],
     [bytes |-> Text(None) \o <<NL>>, closes |-> FALSE],
     [bytes |-> <<"x", NL>>, closes |-> FALSE]}
    \cup IF mayClose
         THEN {[bytes |-> Text(BackendAnswer(r)) \o <<NL>>, closes |-> TRUE],
               [bytes |-> <<Text(BackendAnswer(r))[1]>>, closes |-> TRUE],
               [bytes |-> <<>>, closes |-> TRUE]}
         ELSE {}

\* handle_client's locals before the loop, lines 67-72.  wire and bclosed
\* are the backend's end of the connection; bfault records that a sock.recv
\* on the connection held failed or reported the close, expect the bytes the
\* backend wrote for the request being forwarded.
NewSession ==
    [pc |-> "accept",
     req |-> None, cache_key |-> None,
     resp_obj |-> None, parsed |-> FALSE,
     server_sock |-> "None", server_buf |-> <<>>,
     wire |-> <<>>, bclosed |-> FALSE,
     bfault |-> FALSE, expect |-> <<>>,
     reads |-> <<>>, sent |-> <<>>, writeFailed |-> FALSE, closedBy |-> "none"]

Init ==
    /\ d = <<>>
    /\ capacity \in 0..CacheSize
    /\ sess = [s \in Sessions |-> NewSession]
    /\ unreliable \in BOOLEAN
    /\ InitLruIdle
    /\ InitFramerIdle
    /\ InitKeyIdle

Others == <<capacity, clock, lastUse, lastOp, framerVars, unreliable, keyVars>>

\* send_line(client_sock, obj): the session after the write succeeded or failed
Written(st, obj, ok) ==
    IF ok THEN [st EXCEPT !.sent = Append(@, obj)]
    ELSE [st EXCEPT !.writeFailed = TRUE]

\* the session back at the top of the loop
AtRead(st) ==
    [st EXCEPT !.pc = "read", !.req = None, !.cache_key = None,
               !.resp_obj = None, !.parsed = FALSE, !.expect = <<>>]

\* the loop left: the finally clause closes the backend connection
Finished(st, why) ==
    [AtRead(st) EXCEPT !.pc = "closed", !.closedBy = why,
                       !.server_sock = "None", !.server_buf = <<>>,
                       !.wire = <<>>, !.bclosed = FALSE, !.bfault = FALSE]

\* server_sock.close(); server_sock = None  (server_buf is kept)
Dropped(st) ==
    [st EXCEPT !.server_sock = "None", !.wire = <<>>, !.bclosed = FALSE,
               !.bfault = FALSE]

Update(s, st) == sess' = [sess EXCEPT ![s] = st]

\* whether a client connects for session s in this run: two clients when the
\* backend connections are reliable, one when they are not
Connects(s) == s = "A" \/ ~unreliable

AcceptLoopBlocked == \A o \in Sessions : sess[o].pc \in {"accept", "closed"}

\* main: each handler gets a thread of its own, the accept loop goes on at once
AcceptLoopFree == TRUE

\* main, lines 240-246: accept a client and start its handler
Accept(s) ==
    /\ sess[s].pc = "accept"
    /\ Connects(s)
    /\ AcceptLoopFree
    /\ Update(s, [sess[s] EXCEPT !.pc = "read"])
    /\ UNCHANGED <<d, Others>>

\* lines 90-94: recv_line returns None, the client closed
ClientCloses(s) ==
    /\ sess[s].pc = "read"
    /\ Update(s, Finished(sess[s], "client closed"))
    /\ UNCHANGED <<d, Others>>

RECURSIVE SumLen(_)
SumLen(S) ==
    IF S = {} THEN 0
    ELSE LET s == CHOOSE x \in S : TRUE IN Len(sess[s].reads) + SumLen(S \ {s})

LinesRead == SumLen(Sessions)

\* lines 90-115: a line is read; blank lines are skipped, a line that is not
\* JSON is answered with an error, a request goes on to the cache lookup
ReadLine(s) ==
    /\ sess[s].pc = "read"
    /\ LinesRead < MaxLines
    /\ s = "B" => Len(sess[s].reads) < MaxLinesB
    /\ \E line \in ClientLines, ok \in BOOLEAN :
          LET st == [sess[s] EXCEPT !.reads = Append(@, Kind(line))]
              p == LoadsRequest(line)
          IN  IF IsBlank(line)
              THEN ok /\ Update(s, st)
              ELSE IF ~p.ok
                   THEN Update(s, AtRead(Written(st, InvalidRequestErr, ok)))
                   ELSE /\ ok
                        /\ Update(s, [st EXCEPT !.pc = "get contains",
                                             !.req = p.val,
                                             !.cache_key = DumpsSorted(p.val)])
    /\ UNCHANGED <<d, Others>>


\* line 18: if key not in self._d: return None  (a miss goes on to line 130)
GetContains(s) ==
    /\ sess[s].pc = "get contains"
    /\ Update(s, [sess[s] EXCEPT !.pc = IF Contains(d, sess[s].cache_key)
                                        THEN "get move" ELSE "connect"])
    /\ UNCHANGED <<d, Others>>

\* line 20: self._d.move_to_end(key); a KeyError leaves handle_client
\* through its outer except clause, line 212
GetMove(s) ==
    /\ sess[s].pc = "get move"
    /\ IF Contains(d, sess[s].cache_key)
       THEN /\ d' = MoveToEnd(d, sess[s].cache_key)
            /\ Update(s, [sess[s] EXCEPT !.pc = "get read"])
       ELSE /\ d' = d
            /\ Update(s, Finished(sess[s], "exception"))
    /\ UNCHANGED Others

\* req.get('mode') in the print of line 121
HasGet(r) == r.t = "obj"

\* what the test of line 119 lets through as a hit
IsHit(cached) == cached # None

\* lines 21, 119-127: return self._d[key]; on a hit the cached object is
\* printed about and written to the client, else the request is forwarded
GetRead(s) ==
    /\ sess[s].pc = "get read"
    /\ \E ok \in BOOLEAN :
          IF ~Contains(d, sess[s].cache_key)
          THEN ok /\ Update(s, Finished(sess[s], "exception"))
          ELSE LET cached == GetItem(d, sess[s].cache_key)
               IN  IF ~IsHit(cached)
                   THEN ok /\ Update(s, [sess[s] EXCEPT !.pc = "connect"])
                   ELSE IF ~HasGet(sess[s].req)
                        THEN ok /\ Update(s, Finished(sess[s], "exception"))
                        ELSE IF ok
                             THEN Update(s, AtRead(Written(sess[s], cached, TRUE)))
                             ELSE Update(s, Finished(Written(sess[s], cached, FALSE),
                                                     "client write failed"))
    /\ UNCHANGED <<d, Others>>

\* lines 74-85, 130-141: ensure_server_connection; without a connection the
\* client gets the backend-unavailable error
Connect(s) ==
    /\ sess[s].pc = "connect"
    /\ \E up \in BOOLEAN, ok \in BOOLEAN :
          IF sess[s].server_sock # "None"
          THEN up /\ ok /\ Update(s, [sess[s] EXCEPT !.pc = "forward"])
          ELSE IF up
               THEN ok /\ Update(s, [sess[s] EXCEPT !.pc = "forward",
                                                    !.server_sock = "open",
                                                    !.server_buf = <<>>,
                                                    !.wire = <<>>,
                                                    !.bclosed = FALSE,
                                                    !.bfault = FALSE])
               ELSE Update(s, AtRead(Written(sess[s], UnavailableErr, ok)))
    /\ UNCHANGED <<d, Others>>

\* lines 143-160: s.sendall; the backend that got the request writes its
\* reply, and may close the connection after it.  The send can fail once the
\* backend has closed.
Forward(s) ==
    /\ sess[s].pc = "forward"
    /\ \/ /\ ~sess[s].bclosed
          /\ \E reply \in BackendReplies(sess[s].req, unreliable) :
                Update(s, [sess[s] EXCEPT !.pc = "recv",
                                          !.wire = @ \o reply.bytes,
                                          !.bclosed = reply.closes,
                                          !.expect = reply.bytes])
       \/ /\ sess[s].bclosed
          /\ Update(s, [sess[s] EXCEPT !.pc = "recv"])
       \/ /\ sess[s].bclosed
          /\ \E ok \in BOOLEAN :
                Update(s, AtRead(Written(Dropped(sess[s]), ForwardErr, ok)))
    /\ UNCHANGED <<d, Others>>

\* recv_line(s, server_buf) run to its return: every way the bytes on the
\* wire may come in chunks of at most 4096 bytes; sock.recv returning b""
\* once the backend closed and all its bytes were read; and, when raises,
\* sock.recv raising (a socket error, or the timeout the socket inherited
\* from create_connection) at any iteration.  The set of possible returns,
\* each with the bytes left on the wire and whether the last sock.recv
\* failed or reported the close.
RECURSIVE RecvLine(_, _, _, _)
RecvLine(buf, onWire, closed, raises) ==
    IF HasNewline(buf)
    THEN {[r |-> RecvLineIter(buf, <<>>), wire |-> onWire, failed |-> FALSE]}
    ELSE (IF raises \/ (closed /\ onWire = <<>>)
          THEN {[r |-> RecvLineIter(buf, <<>>), wire |-> onWire, failed |-> TRUE]}
          ELSE {})
         \cup UNION {RecvLine(RecvLineIter(buf, SubSeq(onWire, 1, n)).buf,
                              SubSeq(onWire, n + 1, Len(onWire)), closed, raises) :
                     n \in 1..Min(Len(onWire), RecvSize)}

\* lines 162-184: read one line from the backend; None drops the connection
\* and reports it to the client, a line is parsed into resp_obj
Receive(s) ==
    /\ sess[s].pc = "recv"
    /\ \E got \in RecvLine(sess[s].server_buf, sess[s].wire, sess[s].bclosed, unreliable),
          ok \in BOOLEAN :
          LET st == [sess[s] EXCEPT !.server_buf = got.r.buf, !.wire = got.wire,
                                    !.bfault = @ \/ got.failed]
              p == LoadsResponse(got.r.line)
          IN  IF got.r.ret = "None"
              THEN Update(s, AtRead(Written(Dropped(st), BackendClosedErr, ok)))
              ELSE /\ ok
                   /\ Update(s, [st EXCEPT !.pc = "set assign",
                                           !.resp_obj = IF p.ok THEN p.val
                                                        ELSE InvalidBackendErr,
                                           !.parsed = p.ok])
    /\ UNCHANGED <<d, Others>>

\* line 24: self._d[key] = value
SetAssign(s) ==
    /\ sess[s].pc = "set assign"
    /\ d' = SetItem(d, sess[s].cache_key, sess[s].resp_obj, sess[s].parsed)
    /\ Update(s, [sess[s] EXCEPT !.pc = "set move"])
    /\ UNCHANGED Others

\* lines 192-197: send_line(client_sock, resp_obj); a failed write ends the loop
Responded(st, ok) ==
    IF ok THEN AtRead(Written(st, st.resp_obj, TRUE))
    ELSE Finished(Written(st, st.resp_obj, FALSE), "client write failed")

\* line 25: self._d.move_to_end(key); a KeyError is swallowed at line 189
\* and the response is written
SetMove(s) ==
    /\ sess[s].pc = "set move"
    /\ \E ok \in BOOLEAN :
          IF Contains(d, sess[s].cache_key)
          THEN /\ ok
               /\ d' = MoveToEnd(d, sess[s].cache_key)
               /\ Update(s, [sess[s] EXCEPT !.pc = "set len"])
          ELSE /\ d' = d
               /\ Update(s, Responded(sess[s], ok))
    /\ UNCHANGED Others

\* line 26: if len(self._d) > self.capacity; else the response is written
SetLen(s) ==
    /\ sess[s].pc = "set len"
    /\ \E ok \in BOOLEAN :
          IF Len(d) > capacity
          THEN ok /\ Update(s, [sess[s] EXCEPT !.pc = "set pop"])
          ELSE Update(s, Responded(sess[s], ok))
    /\ UNCHANGED <<d, Others>>

\* line 27: self._d.popitem(last=False); a KeyError is swallowed at line 189;
\* then the response is written
SetPop(s) ==
    /\ sess[s].pc = "set pop"
    /\ d' = IF d # <<>> THEN PopItem(d) ELSE d
    /\ \E ok \in BOOLEAN : Update(s, Responded(sess[s], ok))
    /\ UNCHANGED Others

\* one step of the thread of session s
Step(s) ==
    \/ Accept(s)
    \/ ClientCloses(s)
    \/ ReadLine(s)
    \/ GetContains(s)
    \/ GetMove(s)
    \/ GetRead(s)
    \/ Connect(s)
    \/ Forward(s)
    \/ Receive(s)
    \/ SetAssign(s)
    \/ SetMove(s)
    \/ SetLen(s)
    \/ SetPop(s)

Next == \E s \in Sessions : Step(s)

Spec == Init /\ [][Next]_vars

----------------------------------------------------------------------------
(* SpecKey: two requests handled one after the other by one session; the   *)
(* first is a miss whose response is cached, the second is looked up.     *)

KeyOptions ==
    UNION {{Options(c),
            JObj(<< <<"ttl", JStr("1")>>, <<"cache", JBool(c)>> >>)} : c \in {"true", "false"}}

KeyRequests ==
    {ReqNum} \cup
    UNION {{Request(m, e, o),
            JObj(<< <<"options", o>>, <<"data", JStr(e)>>, <<"mode", JStr(m)>> >>)} :
           m \in KnownModes, e \in {"e1", "e2"}, o \in KeyOptions}

InitKey ==
    /\ kreq \in KeyRequests \X KeyRequests
    /\ kkey = <<>>
    /\ kpc = "first"
    /\ d = <<>>
    /\ capacity = 1
    /\ InitLruIdle
    /\ InitFramerIdle
    /\ InitSessionsIdle

\* lines 113-188 for the first request: its key is built, it is a miss, and
\* the backend's response is stored under the key
KeyFirst ==
    /\ kpc = "first"
    /\ LET key == DumpsSorted(kreq[1])
       IN  /\ kkey' = <<key>>
           /\ d' = LRUSet(d, key, BackendAnswer(kreq[1]), TRUE, capacity)
    /\ kpc' = "second"
    /\ UNCHANGED <<kreq, capacity, clock, lastUse, lastOp, framerVars, sessVars>>

\* lines 113-119 for the second request: its key is built and looked up
KeySecond ==
    /\ kpc = "second"
    /\ LET key == DumpsSorted(kreq[2])
           r == LRUGet(d, key)
       IN  /\ kkey' = Append(kkey, key)
           /\ d' = r.dict
           /\ lastOp' = [op |-> "get", key |-> key, result |-> r.result,
                         was |-> Contains(d, key)]
    /\ kpc' = "done"
    /\ UNCHANGED <<kreq, capacity, clock, lastUse, framerVars, sessVars>>

NextKey == KeyFirst \/ KeySecond

SpecKey == InitKey /\ [][NextKey]_vars

\* a and b are the same JSON value: the same type and text, and for objects
\* the same member names with the same values, in whatever order
RECURSIVE JsonEq(_, _)
JsonEq(a, b) ==
    /\ a.t = b.t
    /\ a.s = b.s
    /\ Len(a.kv) = Len(b.kv)
    /\ {a.kv[i][1] : i \in DOMAIN a.kv} = {b.kv[i][1] : i \in DOMAIN b.kv}
    /\ \A i \in DOMAIN a.kv : JsonEq(a.kv[i][2], b.kv[Member(b, a.kv[i][1])][2])

\* C16: two requests get the same cache key exactly when they are the same
\* JSON value, whatever the order of their members at any level; the second
\* of two requests that differ, be it in options.cache only, is a miss.
C16KeyOfValue ==
    kpc = "done" /\ kreq # <<>> =>
        /\ (kkey[1] = kkey[2]) <=> JsonEq(kreq[1], kreq[2])
        /\ ~JsonEq(kreq[1], kreq[2]) => ~IsHit(lastOp.result)

\* two requests that differ in options.cache only, their members written in
\* different orders: the keys differ and the second is a miss
C16Witness ==
    /\ kpc = "done" /\ kreq # <<>>
    /\ kreq[1] = Request("calc", "e1", Options("true"))
    /\ kreq[2] = JObj(<< <<"options", JObj(<< <<"ttl", JStr("1")>>,
                                              <<"cache", JBool("false")>> >>)>>,
                         <<"data", JStr("e1")>>, <<"mode", JStr("calc")>> >>)
    /\ kkey[1] # kkey[2]
    /\ ~IsHit(lastOp.result)

----------------------------------------------------------------------------
(* Properties of Spec *)

\* C1: every cache entry holds a value obtained by successfully parsing a
\* backend line; the error made up for a malformed backend line is not cached.
C1OnlyParsedCached == \A i \in DOMAIN d : d[i].parsed

\* session s takes a step
Steps(s) == sess'[s] # sess[s]

\* the cache holds, under the key of s's request, a value parsed from a backend line
CachedForRequest(s) ==
    /\ Contains(d, sess[s].cache_key)
    /\ d[IndexOf(d, sess[s].cache_key)].parsed

\* s's step answers its request from the cache: the cached value is written
\* to the client and the loop goes on without the backend
AnsweredFromCache(s) ==
    /\ sess'[s].sent = Append(sess[s].sent, GetItem(d, sess[s].cache_key))
    /\ sess'[s].pc = "read"
    /\ sess'[s].server_sock = sess[s].server_sock
    /\ sess'[s].wire = sess[s].wire

\* C2: with a cache of capacity >= 1, when the lookup of a request finds its
\* key in the cache with a value parsed from a backend response, whatever
\* JSON value that is, the request is answered from the cache with that
\* value and nothing is forwarded (as long as the client can be written to).
C2SecondIsHit ==
    [][\A s \in Sessions :
          (capacity >= 1 /\ sess[s].pc = "get read" /\ Steps(s)
             /\ CachedForRequest(s) /\ ~sess'[s].writeFailed)
          => AnsweredFromCache(s)]_vars

\* s is between the first and the last step of LRUCache.get or LRUCache.set
InsideCache(s) == sess[s].pc \in {"get move", "get read", "set move", "set len", "set pop"}

\* C4: no two sessions are inside LRUCache.get / LRUCache.set at once.
C4MutualExclusion ==
    \A s, t \in Sessions : s # t => ~(InsideCache(s) /\ InsideCache(t))

RECURSIVE NonBlank(_)
NonBlank(kinds) ==
    IF kinds = <<>> THEN <<>>
    ELSE IF Head(kinds) = "blank" THEN NonBlank(Tail(kinds))
         ELSE <<Head(kinds)>> \o NonBlank(Tail(kinds))

\* s is at the top of its loop or has left it
Settled(s) == sess[s].pc \in {"read", "closed"}

\* C6: a line that is not JSON followed by a request (a JSON object) on the
\* same connection, the client staying connected: once both are handled the
\* client has got one response for each, the first of them the
\* invalid-JSON-request error, and the session was not ended by them; the
\* step that handles the invalid line leaves the cache and the backend
\* connection alone.
C6MalformedThenValid ==
    [][\A s \in Sessions :
          /\ (sess[s].pc = "read" /\ Steps(s)
                /\ Len(sess'[s].reads) = Len(sess[s].reads) + 1
                /\ sess'[s].reads[Len(sess'[s].reads)] = "garbage")
             => /\ d' = d
                /\ sess'[s].server_sock = sess[s].server_sock
                /\ sess'[s].wire = sess[s].wire
                /\ sess'[s].pc = "read"
          /\ LET nb == NonBlank(sess'[s].reads)
                 n == Len(nb)
             IN  (Settled(s)' /\ ~sess'[s].writeFailed /\ n >= 2
                    /\ nb[n - 1] = "garbage" /\ nb[n] = "object")
                 => /\ Len(sess'[s].sent) = n
                    /\ sess'[s].sent[n - 1] = InvalidRequestErr
                    /\ sess'[s].closedBy # "exception"]_vars

\* s's step is a failed attempt to connect to the backend
ConnectFails(s) ==
    /\ sess[s].pc = "connect" /\ sess[s].server_sock = "None"
    /\ Steps(s) /\ sess'[s].pc # "forward"

\* s was told that the backend is unavailable
ToldUnavailable(s) == \E i \in DOMAIN sess[s].sent : sess[s].sent[i] = UnavailableErr

\* C7: a miss with the backend unreachable gets the one response "backend
\* unavailable", the session stays open, the cache and the absent backend
\* connection are unchanged; a later request of the session whose key is in
\* the cache is answered from the cache.
C7BackendDown ==
    [][\A s \in Sessions :
          /\ ConnectFails(s)
             => /\ sess'[s].pc = "read"
                /\ d' = d
                /\ sess'[s].server_sock = "None"
                /\ (~sess'[s].writeFailed
                      => sess'[s].sent = Append(sess[s].sent, UnavailableErr))
          /\ (ToldUnavailable(s) /\ sess[s].pc = "get read" /\ Steps(s)
                /\ CachedForRequest(s) /\ ~sess'[s].writeFailed)
             => AnsweredFromCache(s)]_vars

\* C8: a session ends only because its client disconnected or a write to its
\* client failed.
C8OnlyClientEndsSession ==
    \A s \in Sessions :
        sess[s].pc = "closed" => sess[s].closedBy \in {"client closed", "client write failed"}

\* C9: while the client stays connected, every non-blank line read has got
\* its response by the time the next line is read, and at most one is owed.
C9OneResponseEach ==
    \A s \in Sessions :
        ~sess[s].writeFailed =>
            IF Settled(s)
            THEN Len(sess[s].sent) = Len(NonBlank(sess[s].reads))
            ELSE sess[s].pc = "accept"
                 \/ Len(sess[s].sent) + 1 = Len(NonBlank(sess[s].reads))

\* s waits for its backend: connecting, or reading the response line
BlockedOnBackend(s) == sess[s].pc \in {"connect", "recv"}

\* C10: while a session waits for its backend, every other session that has
\* not ended can take its next step; a session whose request is in the cache
\* can look it up and write the response, leaving the waiting session as it is.
C10Independent ==
    \A a, b \in Sessions :
        (a # b /\ BlockedOnBackend(a)) =>
            /\ (Connects(b) /\ sess[b].pc # "closed") => ENABLED Step(b)
            /\ (sess[b].pc = "get read" /\ CachedForRequest(b)
                  /\ IsHit(GetItem(d, sess[b].cache_key)) /\ HasGet(sess[b].req))
               => ENABLED (GetRead(b) /\ AnsweredFromCache(b) /\ sess'[a] = sess[a])

\* A has forwarded a request and waits for the response line of its backend
\* while B is about to read the cached response of a different request
C10Witness ==
    /\ sess["A"].pc = "recv" /\ sess["A"].server_buf = <<>>
    /\ sess["A"].cache_key # sess["B"].cache_key
    /\ sess["B"].pc = "get read" /\ CachedForRequest("B")
    /\ IsHit(GetItem(d, sess["B"].cache_key)) /\ HasGet(sess["B"].req)

\* s's step opens a backend connection
OpensConnection(s) ==
    sess[s].server_sock = "None" /\ sess'[s].server_sock = "open"

\* C12: a session goes to ensure_server_connection only for a request whose
\* key is not in the cache; a backend connection is opened only there and
\* only when the session holds none; a connection held is reused as it is.
C12LazyConnect ==
    [][\A s \in Sessions :
          /\ (sess[s].pc # "connect" /\ sess'[s].pc = "connect")
                => ~Contains(d, sess[s].cache_key)
          /\ OpensConnection(s) => sess[s].pc = "connect"
          /\ (sess[s].pc = "connect" /\ sess[s].server_sock = "open" /\ Steps(s))
                => /\ sess'[s].pc = "forward"
                   /\ sess'[s].server_sock = "open"
                   /\ sess'[s].wire = sess[s].wire
                   /\ sess'[s].server_buf = sess[s].server_buf]_vars

\* C13: once a write to its client has failed, a session reads no further
\* line: the only step it takes is the one that ends it.
C13WriteFailureEnds ==
    [][\A s \in Sessions :
          (sess[s].writeFailed /\ Steps(s))
          => (sess'[s].pc = "closed" /\ sess'[s].reads = sess[s].reads)]_vars

\* the keys of the cache with their values
Stored(dd) == {<<dd[i].k, dd[i].v>> : i \in DOMAIN dd}

\* C14: a lookup that finds the key of the request, whatever JSON value the
\* request is, keeps the keys and values of the cache, writes the stored
\* value as it is to the client, leaves the backend connection alone and
\* goes back to reading (as long as the client can be written to).
C14HitFrame ==
    [][\A s \in Sessions :
          /\ (sess[s].pc \in {"get move", "get read"} /\ Steps(s)) => Stored(d') = Stored(d)
          /\ (sess[s].pc = "get read" /\ Steps(s) /\ Contains(d, sess[s].cache_key)
                /\ ~sess'[s].writeFailed)
             => /\ sess'[s].sent = Append(sess[s].sent, GetItem(d, sess[s].cache_key))
                /\ sess'[s].pc = "read"
                /\ sess'[s].server_sock = sess[s].server_sock
                /\ sess'[s].server_buf = sess[s].server_buf
                /\ sess'[s].wire = sess[s].wire]_vars

\* s's step reads a line of the given kind
Reads(s, kind) ==
    /\ sess[s].pc = "read"
    /\ Len(sess'[s].reads) = Len(sess[s].reads) + 1
    /\ sess'[s].reads[Len(sess'[s].reads)] = kind

\* C18: a line that is empty or holds whitespace only is skipped: nothing is
\* sent for it, the cache and the backend connection are not touched, and
\* the session is back at reading with the rest of its state as it was.
C18BlankSkipped ==
    [][\A s \in Sessions :
          Reads(s, "blank")
          => /\ sess'[s] = [sess[s] EXCEPT !.reads = Append(@, "blank")]
             /\ d' = d]_vars

\* a session that answered a request and holds a backend connection has
\* skipped a blank line after it
C18Witness ==
    /\ sess["A"].reads = <<"object", "blank">>
    /\ sess["A"].pc = "read"
    /\ Len(sess["A"].sent) = 1
    /\ sess["A"].server_sock = "open"
    /\ Len(d) = 1

\* s handles a request past its parsing
PastParsing(s) == sess[s].pc \notin {"accept", "read", "closed"}

\* C19: a request whose mode is not a known one, or that has none, is not
\* looked up in the cache, forwarded or cached: the session does not go
\* past its parsing with it.
C19UnknownModeRejected ==
    \A s \in Sessions : PastParsing(s) => HasKnownMode(sess[s].req)

\* s is not in the middle of handling a backend reply
BetweenReplies(s) ==
    sess[s].pc \in {"read", "get contains", "get move", "get read", "connect", "forward"}

\* C11: once a receive on the backend connection has failed or has seen the
\* backend's close, the session holds no backend connection when it goes on
\* to its next request, so that the next miss connects anew.
C11DropsFailedConnection ==
    \A s \in Sessions :
        (sess[s].bfault /\ BetweenReplies(s)) => sess[s].server_sock = "None"

\* the backend wrote a whole line for the request s forwards
WroteLine(s) ==
    sess[s].expect # <<>> /\ sess[s].expect[Len(sess[s].expect)] = NL

\* s's step takes a line from its backend connection as the reply
TakesReply(s) == sess[s].pc = "recv" /\ sess'[s].pc = "set assign"

\* the response object the code makes of the line the backend wrote
ReplyObject(s) ==
    LET p == LoadsResponse(SubSeq(sess[s].expect, 1, Len(sess[s].expect) - 1))
    IN  [obj |-> IF p.ok THEN p.val ELSE InvalidBackendErr, parsed |-> p.ok]

\* C20: the line taken as the reply to a forwarded request is the whole line
\* the backend wrote for that request: not a part of it, and not bytes left
\* from the reply to an earlier request.
C20WholeReply ==
    [][\A s \in Sessions :
          (TakesReply(s) /\ (WroteLine(s) \/ sess[s].expect = <<>>))
          => /\ WroteLine(s)
             /\ sess'[s].resp_obj = ReplyObject(s).obj
             /\ sess'[s].parsed = ReplyObject(s).parsed]_vars

\* s's step is the move_to_end or the read of LRUCache.get
GetStepAfterTest(s) == sess[s].pc \in {"get move", "get read"} /\ Steps(s)

\* s's step leaves LRUCache.get with a KeyError
GetRaises(s) == GetStepAfterTest(s) /\ ~Contains(d, sess[s].cache_key)

\* C21: however the steps of get and set of the sessions interleave, get
\* does not raise: after its membership test found the key, its move_to_end
\* and its read find the key too, and the session goes on with a value
\* stored under the key rather than ending.
C21GetNeverRaises ==
    [][\A s \in Sessions :
          /\ ~GetRaises(s)
          /\ (GetStepAfterTest(s) /\ sess[s].pc = "get move")
                => sess'[s].pc = "get read"]_vars

=============================================================================
